---- MODULE Spec2Model ----
(***************************************************************************)
(* Model of the radio prompt, src/lib/prompts/radio.js (class RadioPrompt  *)
(* and the module functions renderChoices / getCheckbox).                  *)
(*                                                                         *)
(* Indexes: the choice list is a TLA+ sequence, so a choice is named by    *)
(* its position 1..Len(choices); `pointer` and every index argument keep   *)
(* the 0-based value the JavaScript code uses.  Undefined (position 0) is  *)
(* the result of a lookup that finds nothing.                              *)
(***************************************************************************)
EXTENDS Integers, Sequences, FiniteSets, TLC

VARIABLES
  choices,        \* this.opt.choices.choices: the ordered list of rows
  pointer,        \* this.pointer
  selected,       \* this.selected (the spec's selectedLabel)
  status,         \* this.status: "active" until onEnd sets "answered"
  selection,      \* this.selection: short labels gathered by getCurrentValue
                  \* (<<>> also stands for the field before its first write:
                  \* it is not read before getCurrentValue or onEnd set it)
  dontShowHints,  \* this.dontShowHints
  loop,           \* this.opt.loop
  subs,           \* event wiring of _run: "none", "live", "ended"
  screen,         \* the frame last handed to this.screen.render
  effects,        \* the calls the last handler made on the screen, the
                  \* cursor and the completion callback, in their order
  doneCount,      \* number of calls of this.done so far
  doneValue,      \* the value of the last call of this.done
  updates,        \* history: number of update calls so far
  given,          \* history: the `default` option the constructor was
                  \* given, where InitGiven records it
  last,           \* history: the last operation and the state it started in
  navStart,       \* history: pointer at the start of the current run of downs
  navCount        \* history: length of the current run of down events

vars == <<choices, pointer, selected, status, selection, dontShowHints, loop,
          subs, screen, effects, doneCount, doneValue, updates, given, last,
          navStart, navCount>>

(***************************************************************************)
(* Bounds                                                                  *)
(***************************************************************************)
MaxLen == 3
MaxDone == 2
MaxUpdateLen == 1
MaxUpdates == 1

(***************************************************************************)
(* Choice list (lib/objects/choices.js, choice.js, separator.js)           *)
(***************************************************************************)
Undefined == 0

Kinds == {"sel", "dis", "sep"}

NameAt(i) == <<"A", "B", "C", "D", "E", "F">>[i]

\* A row: a separator, a disabled choice or an enabled choice.  value and
\* short default to the name.
Choice(kind, i) == [kind |-> kind, name |-> NameAt(i), checked |-> FALSE]

ChoiceValue(c) == c.name

ChoiceShort(c) == c.name

ListsUpTo(m) ==
  UNION {{[i \in 1..n |-> Choice(k[i], i)] : k \in [1..n -> Kinds]} : n \in 0..m}

ChoiceLists == ListsUpTo(MaxLen)

RECURSIVE realFrom(_, _)
realFrom(chs, i) ==
  IF i > Len(chs) THEN <<>>
  ELSE (IF chs[i].kind = "sel" THEN <<i>> ELSE <<>>) \o realFrom(chs, i + 1)

\* this.opt.choices.realChoices, as the positions of its members in choices:
\* the rows that are neither separators nor disabled.  This is the index
\* space of this.pointer: renderChoices counts separators and disabled rows
\* alike in separatorOffset before it compares a row's index with the
\* pointer, and clearAllChoices walks getChoice(0 .. realLength - 1).
realChoices(chs) == realFrom(chs, 1)

realLength(chs) == Len(realChoices(chs))

getChoice(chs, index) ==
  IF index >= 0 /\ index < realLength(chs) THEN realChoices(chs)[index + 1]
  ELSE Undefined

\* choices.indexOf(item): 0-based position in the full list, -1 if absent
indexOf(chs, pos) == IF pos = Undefined THEN -1 ELSE pos - 1

CheckedSet(chs) == {i \in 1..Len(chs) : chs[i].checked}

NumChecked(chs) == Cardinality(CheckedSet(chs))

(***************************************************************************)
(* Navigation (lib/utils/incrementListIndex.js)                            *)
(***************************************************************************)
incrementListIndex(current, dir, chs, shouldLoop) ==
  LET len == realLength(chs) IN
  IF len = 0 THEN current
  ELSE IF dir = "up"
       THEN (IF current > 0 THEN current - 1
             ELSE IF shouldLoop THEN len - 1 ELSE current)
       ELSE (IF current < len - 1 THEN current + 1
             ELSE IF shouldLoop THEN 0 ELSE current)

(***************************************************************************)
(* Selection: setChoice, clearChoice, clearAllChoices, onInverseKey.       *)
(* Each takes and returns the pair of fields it touches.                   *)
(***************************************************************************)
Sel(chs, lbl) == [choices |-> chs, selected |-> lbl]

setChoice(s, index) ==
  LET item == getChoice(s.choices, index) IN
  IF item # Undefined
  THEN Sel([s.choices EXCEPT ![item].checked = TRUE], s.choices[item].name)
  ELSE s

clearChoice(s, index) ==
  LET item == getChoice(s.choices, index) IN
  IF item # Undefined
  THEN Sel([s.choices EXCEPT ![item].checked = FALSE],
           IF s.selected = s.choices[item].name THEN "" ELSE s.selected)
  ELSE s

RECURSIVE clearLoop(_, _)
clearLoop(s, i) ==
  IF i < realLength(s.choices) THEN clearLoop(clearChoice(s, i), i + 1) ELSE s

clearAllChoices(s) == Sel(clearLoop(s, 0).choices, "")

inverseAll(s) ==
  Sel([i \in 1..Len(s.choices) |->
         IF s.choices[i].kind # "sep"
         THEN [s.choices[i] EXCEPT !.checked = ~s.choices[i].checked]
         ELSE s.choices[i]],
      s.selected)

(***************************************************************************)
(* Rendering: renderChoices, getCheckbox, render                           *)
(***************************************************************************)
getCheckbox(checked) == IF checked THEN "radioOn" ELSE "radioOff"

\* separatorOffset when row i (1-based) is reached: the separators and the
\* disabled choices among the rows up to and including i
separatorOffset(chs, i) == Cardinality({j \in 1..i : chs[j].kind # "sel"})

\* renderChoices without the separator branch: a separator is laid out as
\* an ordinary choice row
renderChoicesSeparatorAsRow(chs, ptr) ==
  [i \in 1..Len(chs) |->
     IF chs[i].kind = "dis"
     THEN [row |-> "disabled", name |-> chs[i].name, box |-> "", focus |-> FALSE]
     ELSE [row |-> "choice", name |-> chs[i].name,
           box |-> getCheckbox(chs[i].checked),
           focus |-> ((i - 1) - Cardinality({j \in 1..i : chs[j].kind = "dis"})
                      = ptr)]]

\* renderChoices without the disabled branch: a disabled choice is laid out
\* as an ordinary choice row
renderChoicesDisabledAsRow(chs, ptr) ==
  [i \in 1..Len(chs) |->
     IF chs[i].kind = "sep"
     THEN [row |-> "separator", name |-> "", box |-> "", focus |-> FALSE]
     ELSE [row |-> "choice", name |-> chs[i].name,
           box |-> getCheckbox(chs[i].checked),
           focus |-> ((i - 1) - Cardinality({j \in 1..i : chs[j].kind = "sep"})
                      = ptr)]]

renderChoices(chs, ptr) ==
  [i \in 1..Len(chs) |->
     IF chs[i].kind = "sep"
     THEN [row |-> "separator", name |-> "", box |-> "", focus |-> FALSE]
     ELSE IF chs[i].kind = "dis"
     THEN [row |-> "disabled", name |-> chs[i].name, box |-> "", focus |-> FALSE]
     ELSE [row |-> "choice", name |-> chs[i].name,
           box |-> getCheckbox(chs[i].checked),
           focus |-> ((i - 1) - separatorOffset(chs, i) = ptr)]]

\* every row is one line high here, so the reduce of render counts the rows
\* up to indexPosition
realIndexPosition(chs, ptr) ==
  LET indexPosition == indexOf(chs, getChoice(chs, ptr)) IN
  Cardinality({i \in 0..(Len(chs) - 1) : i <= indexPosition}) - 1

NoFrame == [hints |-> FALSE, answered |-> FALSE, answer |-> <<>>,
            rows |-> <<>>, line |-> -1, error |-> FALSE, n |-> "none"]

render(chs, ptr, st, seln, noHints, error) ==
  IF st = "answered"
  THEN [hints |-> ~noHints, answered |-> TRUE, answer |-> seln,
        rows |-> <<>>, line |-> -1, error |-> error, n |-> "frame"]
  ELSE [hints |-> ~noHints, answered |-> FALSE, answer |-> <<>>,
        rows |-> renderChoices(chs, ptr),
        line |-> realIndexPosition(chs, ptr), error |-> error, n |-> "frame"]

(***************************************************************************)
(* Construction and the gathering of the answer                            *)
(***************************************************************************)
\* the `default` option: an array of values, or anything else
Defaults ==
  {[isArray |-> TRUE, vals |-> S] : S \in SUBSET {NameAt(i) : i \in 1..MaxLen}}
  \cup {[isArray |-> FALSE, vals |-> {NameAt(i)}] : i \in 1..MaxLen}
  \cup {[isArray |-> FALSE, vals |-> {}]}

\* the forEach of the constructor: check every choice whose value is in the
\* default array (a separator has no value)
constructorChoices(chs, def) ==
  IF def.isArray
  THEN [i \in 1..Len(chs) |->
          IF chs[i].kind # "sep" /\ ChoiceValue(chs[i]) \in def.vals
          THEN [chs[i] EXCEPT !.checked = TRUE]
          ELSE chs[i]]
  ELSE chs

RECURSIVE filterChecked(_, _)
filterChecked(chs, i) ==
  IF i > Len(chs) THEN <<>>
  ELSE (IF chs[i].checked /\ chs[i].kind # "dis" THEN <<chs[i]>> ELSE <<>>)
       \o filterChecked(chs, i + 1)

\* getCurrentValue: the new this.selection and the returned list of values
getCurrentValue(chs) ==
  LET picked == filterChecked(chs, 1) IN
  [selection |-> [i \in 1..Len(picked) |-> ChoiceShort(picked[i])],
   value |-> [i \in 1..Len(picked) |-> ChoiceValue(picked[i])]]

getPointed(chs, ptr) ==
  IF Len(chs) > 0
  THEN (IF getChoice(chs, ptr) # Undefined THEN chs[getChoice(chs, ptr)].name
        ELSE "TypeError")
  ELSE ""

getSelected(lbl) == lbl

NoValue == [kind |-> "none", value |-> <<>>]

\* commonStrings.cancelString
CancelValue == [kind |-> "cancel", value |-> <<>>]

Answers(v) == [kind |-> "answers", value |-> v]

\* the state a handler started in
Hist(op, arg) ==
  [op |-> op, arg |-> arg, op2 |-> "", arg2 |-> -1,
   pointer |-> pointer, status |-> status]

\* the same for a direct setChoice call, which also keeps the setChoice
\* call it directly follows, if any
HistApi(op, arg) ==
  [op |-> op, arg |-> arg,
   op2 |-> IF last.op = "setChoice" THEN "setChoice" ELSE "",
   arg2 |-> IF last.op = "setChoice" THEN last.arg ELSE -1,
   pointer |-> pointer, status |-> status]

NoDefault == [isArray |-> FALSE, vals |-> {}]

\* the state the constructor leaves; noted is what the history keeps of def
Construct(chs, def, lp, noted) ==
  /\ choices = constructorChoices(chs, def)
  /\ pointer = 0
  /\ selected = ""
  /\ status = "active"
  /\ selection = <<>>
  /\ dontShowHints = FALSE
  /\ loop = lp
  /\ subs = "none"
  /\ screen = NoFrame
  /\ effects = <<>>
  /\ doneCount = 0
  /\ doneValue = NoValue
  /\ updates = 0
  /\ given = noted
  /\ last = [op |-> "new", arg |-> -1, op2 |-> "", arg2 |-> -1,
             pointer |-> 0, status |-> "active"]
  /\ navStart = 0
  /\ navCount = 0

Init ==
  \E chs \in ChoiceLists, def \in Defaults, lp \in BOOLEAN :
    Construct(chs, def, lp, NoDefault)

\* the same, with the default option kept in the history
InitGiven ==
  \E chs \in ChoiceLists, def \in Defaults, lp \in BOOLEAN :
    Construct(chs, def, lp, def)

(***************************************************************************)
(* Handlers.  Each is the whole method, its render included.               *)
(***************************************************************************)
\* _run: subscribe to the event source and draw the first frame
run ==
  /\ subs = "none"
  /\ subs' = "live"
  /\ screen' = render(choices, pointer, status, selection, dontShowHints, FALSE)
  /\ effects' = <<"cursor.hide", "render">>
  /\ UNCHANGED <<choices, pointer, selected, status, selection, dontShowHints,
                 loop, doneCount, doneValue>>

\* onEnd without the test of this.selection.length
onEndNoEmptyTest(hasState, value, seln) ==
  LET cancel == ~hasState
      newSelection == IF cancel THEN <<>> ELSE seln
  IN /\ doneCount < MaxDone
     /\ selection' = newSelection
     /\ status' = "answered"
     /\ dontShowHints' = TRUE
     /\ screen' = render(choices, pointer, "answered", newSelection, TRUE, FALSE)
     /\ effects' = <<"render", "screen.done", "cursor.show", "done">>
     /\ doneCount' = doneCount + 1
     /\ doneValue' = IF cancel THEN CancelValue ELSE Answers(value)
     /\ UNCHANGED <<choices, pointer, selected, loop>>

\* onEnd with && in place of || in its test
onEndBothTests(hasState, value, seln) ==
  LET cancel == ~hasState /\ Len(seln) = 0
      newSelection == IF cancel THEN <<>> ELSE seln
  IN /\ doneCount < MaxDone
     /\ selection' = newSelection
     /\ status' = "answered"
     /\ dontShowHints' = TRUE
     /\ screen' = render(choices, pointer, "answered", newSelection, TRUE, FALSE)
     /\ effects' = <<"render", "screen.done", "cursor.show", "done">>
     /\ doneCount' = doneCount + 1
     /\ doneValue' = IF cancel THEN CancelValue ELSE Answers(value)
     /\ UNCHANGED <<choices, pointer, selected, loop>>

\* onEnd that renders before it sets this.status and this.dontShowHints
onEndRendersFirst(hasState, value, seln) ==
  LET cancel == ~hasState \/ Len(seln) = 0
      newSelection == IF cancel THEN <<>> ELSE seln
  IN /\ doneCount < MaxDone
     /\ selection' = newSelection
     /\ screen' = render(choices, pointer, status, newSelection, dontShowHints,
                         FALSE)
     /\ effects' = <<"render", "screen.done", "cursor.show", "done">>
     /\ status' = "answered"
     /\ dontShowHints' = TRUE
     /\ doneCount' = doneCount + 1
     /\ doneValue' = IF cancel THEN CancelValue ELSE Answers(value)
     /\ UNCHANGED <<choices, pointer, selected, loop>>

\* onEnd(state); hasState is FALSE for the call without argument, seln is
\* this.selection on entry
onEnd(hasState, value, seln) ==
  LET cancel == ~hasState \/ Len(seln) = 0
      newSelection == IF cancel THEN <<>> ELSE seln
  IN /\ doneCount < MaxDone
     /\ selection' = newSelection
     /\ status' = "answered"
     /\ dontShowHints' = TRUE
     /\ screen' = render(choices, pointer, "answered", newSelection, TRUE, FALSE)
     /\ effects' = <<"render", "screen.done", "cursor.show", "done">>
     /\ doneCount' = doneCount + 1
     /\ doneValue' = IF cancel THEN CancelValue ELSE Answers(value)
     /\ UNCHANGED <<choices, pointer, selected, loop>>

\* a line event whose value the validator accepts: getCurrentValue, then
\* onEnd; validation.success has emitted, which ends every subscription
submitValid ==
  /\ subs = "live"
  /\ LET cur == getCurrentValue(choices) IN onEnd(TRUE, cur.value, cur.selection)
  /\ subs' = "ended"

\* a line event whose value the validator rejects: getCurrentValue, then
\* onError
\* a rejected line event whose onError calls render without the message
submitInvalidNoMessage ==
  /\ subs = "live"
  /\ LET cur == getCurrentValue(choices) IN
       /\ selection' = cur.selection
       /\ screen' = render(choices, pointer, status, cur.selection,
                           dontShowHints, FALSE)
       /\ effects' = <<"render">>
  /\ UNCHANGED <<choices, pointer, selected, status, dontShowHints, loop, subs,
                 doneCount, doneValue>>

submitInvalid ==
  /\ subs = "live"
  /\ LET cur == getCurrentValue(choices) IN
       /\ selection' = cur.selection
       /\ screen' = render(choices, pointer, status, cur.selection,
                           dontShowHints, TRUE)
       /\ effects' = <<"render">>
  /\ UNCHANGED <<choices, pointer, selected, status, dontShowHints, loop, subs,
                 doneCount, doneValue>>

onBackspaceKeyKey ==
  /\ subs = "live"
  /\ onEnd(FALSE, <<>>, selection)
  /\ UNCHANGED subs

\* onUpKey whose selection follows the focus, as in a plain list prompt
onUpKeySelects ==
  /\ subs = "live"
  /\ pointer' = incrementListIndex(pointer, "up", choices, loop)
  /\ LET s == setChoice(clearAllChoices(Sel(choices, selected)), pointer') IN
       /\ choices' = s.choices
       /\ selected' = s.selected
       /\ screen' = render(s.choices, pointer', status, selection,
                           dontShowHints, FALSE)
       /\ effects' = <<"render">>
  /\ UNCHANGED <<status, selection, dontShowHints, loop, subs, doneCount,
                 doneValue>>

\* onUpKey that wraps whatever opt.loop says
onUpKeyAlwaysLoop ==
  /\ subs = "live"
  /\ pointer' = incrementListIndex(pointer, "up", choices, TRUE)
  /\ screen' = render(choices, pointer', status, selection, dontShowHints, FALSE)
  /\ effects' = <<"render">>
  /\ UNCHANGED <<choices, selected, status, selection, dontShowHints, loop,
                 subs, doneCount, doneValue>>

onUpKey ==
  /\ subs = "live"
  /\ pointer' = incrementListIndex(pointer, "up", choices, loop)
  /\ screen' = render(choices, pointer', status, selection, dontShowHints, FALSE)
  /\ effects' = <<"render">>
  /\ UNCHANGED <<choices, selected, status, selection, dontShowHints, loop,
                 subs, doneCount, doneValue>>

\* onDownKey that renders before it moves the pointer
onDownKeyRendersFirst ==
  /\ subs = "live"
  /\ screen' = render(choices, pointer, status, selection, dontShowHints, FALSE)
  /\ effects' = <<"render">>
  /\ pointer' = incrementListIndex(pointer, "down", choices, loop)
  /\ UNCHANGED <<choices, selected, status, selection, dontShowHints, loop,
                 subs, doneCount, doneValue>>

\* onDownKey that never wraps, whatever opt.loop says
onDownKeyNeverLoop ==
  /\ subs = "live"
  /\ pointer' = incrementListIndex(pointer, "down", choices, FALSE)
  /\ screen' = render(choices, pointer', status, selection, dontShowHints, FALSE)
  /\ effects' = <<"render">>
  /\ UNCHANGED <<choices, selected, status, selection, dontShowHints, loop,
                 subs, doneCount, doneValue>>

onDownKey ==
  /\ subs = "live"
  /\ pointer' = incrementListIndex(pointer, "down", choices, loop)
  /\ screen' = render(choices, pointer', status, selection, dontShowHints, FALSE)
  /\ effects' = <<"render">>
  /\ UNCHANGED <<choices, selected, status, selection, dontShowHints, loop,
                 subs, doneCount, doneValue>>

onSpaceKey ==
  /\ subs = "live"
  /\ LET s == setChoice(clearAllChoices(Sel(choices, selected)), pointer) IN
       /\ choices' = s.choices
       /\ selected' = s.selected
       /\ screen' = render(s.choices, pointer, status, selection,
                           dontShowHints, FALSE)
       /\ effects' = <<"render">>
  /\ UNCHANGED <<pointer, status, selection, dontShowHints, loop, subs,
                 doneCount, doneValue>>

onInverseKey ==
  /\ choices' = inverseAll(Sel(choices, selected)).choices
  /\ screen' = render(choices', pointer, status, selection, dontShowHints, FALSE)
  /\ effects' = <<"render">>
  /\ UNCHANGED <<pointer, selected, status, selection, dontShowHints, loop,
                 subs, doneCount, doneValue>>

\* update(values, pointed, selected): removeAll, push every value, set the
\* pointer, setChoice unless sel is -1, render
update(values, pointed, sel) ==
  LET s == IF sel # -1 THEN setChoice(Sel(values, selected), sel)
           ELSE Sel(values, selected)
  IN /\ choices' = s.choices
     /\ selected' = s.selected
     /\ pointer' = pointed
     /\ screen' = render(s.choices, pointed, status, selection,
                         dontShowHints, FALSE)
     /\ effects' = <<"render">>
     /\ UNCHANGED <<status, selection, dontShowHints, loop, subs, doneCount,
                    doneValue>>

(***************************************************************************)
(* The session: events from the event source and update calls of the host  *)
(***************************************************************************)
NoNav == UNCHANGED <<navStart, navCount, updates, given>>

Run == run /\ last' = Hist("run", -1) /\ NoNav

Up == onUpKey /\ last' = Hist("up", -1) /\ NoNav

Down == onDownKey /\ last' = Hist("down", -1) /\ NoNav

Space == onSpaceKey /\ last' = Hist("space", -1) /\ NoNav

Backspace == onBackspaceKeyKey /\ last' = Hist("backspace", -1) /\ NoNav

Submit == submitValid /\ last' = Hist("submit", -1) /\ NoNav

Reject == submitInvalid /\ last' = Hist("reject", -1) /\ NoNav

Next == Run \/ Up \/ Down \/ Space \/ Backspace \/ Submit \/ Reject

Spec == Init /\ [][Next]_vars

SpecGiven == InitGiven /\ [][Next]_vars

(***************************************************************************)
(* The session with a host that also replaces the list through update      *)
(***************************************************************************)
\* the host gives a new list, a pointer up to one past its last row and a
\* selected index or -1; the history does not keep the position in the list
\* that update throws away
Update ==
  \E values \in ListsUpTo(MaxUpdateLen) :
   \E pointed \in 0..Len(values), sel \in -1..(Len(values) - 1) :
    /\ updates < MaxUpdates
    /\ update(values, pointed, sel)
    /\ updates' = updates + 1
    /\ last' = [Hist("update", -1) EXCEPT !.pointer = -1]
    /\ UNCHANGED <<navStart, navCount, given>>

NextHost == Next \/ Update

SpecHost == Init /\ [][NextHost]_vars

(***************************************************************************)
(* Navigation alone: runs of consecutive down events are counted           *)
(***************************************************************************)
NavRun ==
  /\ run /\ last' = Hist("run", -1)
  /\ UNCHANGED <<navStart, navCount, updates, given>>

NavUp ==
  /\ onUpKey /\ last' = Hist("up", -1)
  /\ navStart' = pointer'
  /\ navCount' = 0
  /\ UNCHANGED <<updates, given>>

NavDown ==
  /\ navCount <= MaxLen
  /\ onDownKey /\ last' = Hist("down", -1)
  /\ navCount' = navCount + 1
  /\ UNCHANGED <<navStart, updates, given>>

NextNav == NavRun \/ NavUp \/ NavDown

SpecNav == Init /\ [][NextNav]_vars

(***************************************************************************)
(* The selection methods called directly on the prompt object              *)
(***************************************************************************)
Untouched ==
  /\ UNCHANGED <<pointer, status, selection, dontShowHints, loop, subs,
                 screen, doneCount, doneValue, updates, given, navStart,
                 navCount>>
  /\ effects' = <<>>

CallSetChoice ==
  \E index \in 0..MaxLen :
    LET s == setChoice(Sel(choices, selected), index) IN
      /\ choices' = s.choices
      /\ selected' = s.selected
      /\ last' = HistApi("setChoice", index)
      /\ Untouched

CallClearChoice ==
  \E index \in 0..MaxLen :
    LET s == clearChoice(Sel(choices, selected), index) IN
      /\ choices' = s.choices
      /\ selected' = s.selected
      /\ last' = Hist("clearChoice", index)
      /\ Untouched

CallClearAllChoices ==
  LET s == clearAllChoices(Sel(choices, selected)) IN
    /\ choices' = s.choices
    /\ selected' = s.selected
    /\ last' = Hist("clearAllChoices", -1)
    /\ Untouched

CallOnInverseKey ==
  /\ onInverseKey
  /\ last' = Hist("inverse", -1)
  /\ UNCHANGED <<updates, given, navStart, navCount>>

NextApi ==
  CallSetChoice \/ CallClearChoice \/ CallClearAllChoices \/ CallOnInverseKey

SpecApi == Init /\ [][NextApi]_vars

(***************************************************************************)
(* Properties                                                              *)
(***************************************************************************)
EnabledChecked(chs) == {i \in CheckedSet(chs) : chs[i].kind # "dis"}

NonSeparators(chs) == {i \in 1..Len(chs) : chs[i].kind # "sep"}

KindsOf(chs) == [i \in 1..Len(chs) |-> chs[i].kind]

Addressed == getChoice(choices, pointer)

FocusRows == {i \in 1..Len(screen.rows) : screen.rows[i].focus}

\* C1: in every reachable state at most one choice has checked = true.
C1_AtMostOneChecked == NumChecked(choices) <= 1

\* C2: a submit that passes validation while no enabled choice is checked
\* delivers the cancellation sentinel; a delivered list of answers is never
\* empty and, at a submit, holds the values of the checked enabled choices.
C2_EmptySubmitCancels ==
  /\ doneValue.kind = "answers" => Len(doneValue.value) > 0
  /\ last.op = "submit" =>
       /\ EnabledChecked(choices) = {} => doneValue = CancelValue
       /\ doneValue.kind = "answers" =>
            /\ EnabledChecked(choices) # {}
            /\ {doneValue.value[i] : i \in 1..Len(doneValue.value)}
                 = {ChoiceValue(choices[i]) : i \in EnabledChecked(choices)}

C2_Witness ==
  /\ last.op = "submit"
  /\ EnabledChecked(choices) = {}
  /\ CheckedSet(choices) # {}
  /\ doneValue = CancelValue

\* C3: after a space event handled in the active state with the pointer on a
\* choice, exactly one choice is checked, the one the pointer addresses, and
\* selectedLabel is its name.
C3_SpaceSelectsOnlyPointed ==
  (last.op = "space" /\ last.status = "active" /\ Addressed # Undefined) =>
    /\ CheckedSet(choices) = {Addressed}
    /\ selected = choices[Addressed].name

\* C4: a backspace event in the active state finalizes the session as
\* cancelled: status answered, empty finalized selection, sentinel delivered.
C4_BackspaceCancels ==
  (last.op = "backspace" /\ last.status = "active") =>
    /\ status = "answered"
    /\ selection = <<>>
    /\ doneValue = CancelValue

C4_Witness ==
  /\ last.op = "backspace"
  /\ last.status = "active"
  /\ EnabledChecked(choices) # {}
  /\ doneValue = CancelValue
  /\ doneCount = 1

\* C5: the completion callback is invoked at most once in a session.
C5_DoneAtMostOnce == doneCount <= 1

\* C6: setChoice(i) directly followed by setChoice(j), i and j different and in
\* range, leaves exactly one checked choice, the one at j.
C6_SecondSetChoiceOnly ==
  (/\ last.op = "setChoice" /\ last.op2 = "setChoice"
   /\ last.arg # last.arg2
   /\ getChoice(choices, last.arg) # Undefined
   /\ getChoice(choices, last.arg2) # Undefined) =>
    CheckedSet(choices) = {getChoice(choices, last.arg)}

ValidStart == navStart >= 0 /\ navStart < realLength(choices)

C8_UpClampsAtFirst ==
  (last.op = "up" /\ ~loop /\ last.pointer = 0) => pointer = 0

C8_Witness ==
  /\ last.op = "up" /\ ~loop /\ last.pointer = 0
  /\ realLength(choices) >= 2
  /\ pointer = 0

\* C9: after every up or down event the choice the pointer addresses, and the
\* row drawn as focused, is never a separator.
C9_NeverOnSeparator ==
  last.op \in {"up", "down"} =>
    /\ Addressed # Undefined => choices[Addressed].kind # "sep"
    /\ \A i \in FocusRows : choices[i].kind # "sep"

C9_Witness ==
  /\ last.op \in {"up", "down"}
  /\ pointer # last.pointer
  /\ \E i \in 1..Len(choices) : choices[i].kind = "sep" /\ i < Addressed
  /\ FocusRows = {Addressed}

C11_PointerInRange ==
  realLength(choices) > 0 => (pointer >= 0 /\ pointer < realLength(choices))

\* C12: in every reachable state no separator and no disabled choice has
\* checked = true.
C12_OnlyEnabledChecked ==
  \A i \in CheckedSet(choices) : choices[i].kind = "sel"

\* C13: a submit rejected by the validator in the active state leaves the
\* session active: status, the pointer, every checked flag and selectedLabel
\* are unchanged, the completion callback is not invoked, the frame drawn
\* carries the error, and the event subscriptions stay live.
C13_RejectKeepsSession ==
  [][(last'.op = "reject" /\ status = "active") =>
       /\ status' = "active"
       /\ doneCount' = doneCount
       /\ pointer' = pointer
       /\ choices' = choices
       /\ selected' = selected
       /\ screen'.error
       /\ screen'.rows = renderChoices(choices, pointer)
       /\ subs' = "live"]_vars

C13_Witness ==
  /\ last.op = "reject" /\ last.status = "active"
  /\ status = "active"
  /\ EnabledChecked(choices) # {}
  /\ pointer >= 1
  /\ screen.error
  /\ doneCount = 0

\* C15: an up or down event changes at most the pointer: every checked flag,
\* selectedLabel and status are the same after the event as before it.
C15_NavigationKeepsSelection ==
  [][last'.op \in {"up", "down"} =>
       /\ choices' = choices
       /\ selected' = selected
       /\ status' = status]_vars

C15_Witness ==
  /\ last.op \in {"up", "down"}
  /\ pointer # last.pointer
  /\ Addressed # Undefined
  /\ CheckedSet(choices) # {}
  /\ Addressed \notin CheckedSet(choices)
  /\ selected # ""

\* C17: a space event handled while the pointer addresses no choice leaves
\* every checked flag and selectedLabel unchanged.
C17_SpaceOffListIgnored ==
  [][(last'.op = "space" /\ Addressed = Undefined) =>
       /\ choices' = choices
       /\ selected' = selected]_vars

\* C18: once status is answered, no later event changes status, the pointer,
\* any checked flag or selectedLabel.
C18_AnsweredAbsorbing ==
  [][status = "answered" =>
       /\ status' = status
       /\ pointer' = pointer
       /\ choices' = choices
       /\ selected' = selected]_vars

\* C20: in every reachable state selectedLabel is the empty string when no
\* choice is checked, and otherwise the name of a choice that is checked.
C20_LabelAgreesWithChecked ==
  IF CheckedSet(choices) = {} THEN selected = ""
  ELSE \E i \in CheckedSet(choices) : choices[i].name = selected


\* the first argument of this.screen.render: the frame without its error line
MainText(frame) ==
  [hints |-> frame.hints, answered |-> frame.answered, answer |-> frame.answer,
   rows |-> frame.rows, line |-> frame.line]

\* C14 as stated: the rendered main text is determined by (choice list with
\* its checked flags, pointer, status).  The frame of an accepted submit shows
\* the short labels of the checked enabled choices, so every answered state
\* with the same list, however it was reached, would show those labels.
C14_TextFromListPointerStatus ==
  status = "answered" => screen.answer = getCurrentValue(choices).selection

\* C14 amended: the rendered main text is determined by (choice list with its
\* checked flags, pointer, status, this.selection): the frame on screen is the
\* one render computes from these four, and the hint line depends on status
\* alone.
C14_TextFromStateAndSelection ==
  /\ dontShowHints = (status = "answered")
  /\ screen.n = "frame" =>
       MainText(screen)
         = MainText(render(choices, pointer, status, selection,
                           status = "answered", FALSE))

C14_Witness ==
  /\ last.op = "backspace" /\ last.status = "active"
  /\ status = "answered"
  /\ EnabledChecked(choices) # {}
  /\ screen.answered
  /\ screen.answer = <<>>


\* C16: after construction with a `default` option, a single value or a list
\* of values, every choice whose value equals the default (or is a member of
\* the default list) has checked = true.
C16_DefaultChecked ==
  last.op = "new" =>
    \A i \in 1..Len(choices) :
      (choices[i].kind # "sep" /\ ChoiceValue(choices[i]) \in given.vals)
        => choices[i].checked


Renders == {i \in 1..Len(effects) : effects[i] = "render"}

\* C19: every handled event and every update call makes exactly one render,
\* of the state the handler leaves; a finalization renders the answered
\* frame without hints first, then calls screen.done, then the completion
\* callback.
C19_OneRenderThenDone ==
  /\ last.op \in {"up", "down", "space", "reject", "update", "submit",
                  "backspace"} =>
       /\ Cardinality(Renders) = 1
       /\ MainText(screen)
            = MainText(render(choices, pointer, status, selection,
                              dontShowHints, FALSE))
  /\ last.op \in {"submit", "backspace"} =>
       /\ effects = <<"render", "screen.done", "cursor.show", "done">>
       /\ screen.answered
       /\ ~screen.hints
       /\ status = "answered"

C19_Witness ==
  /\ last.op = "submit"
  /\ updates = 1
  /\ screen.answered
  /\ screen.answer # <<>>
  /\ effects[1] = "render"
  /\ effects[4] = "done"
  /\ doneValue.kind = "answers"

====
